---------------------------- MODULE Spec2Model ----------------------------
(***************************************************************************)
(* The two example models of docs/model_creation_tutorial.ipynb:           *)
(*   Time        a_1 * exp(-(t - ut)^2 / (2 st^2)) + a_0                   *)
(*   CatSetTime  a_1 c1 exp(..) + a_2 c2 exp(..) + a_0                     *)
(* each with the Bernoulli negative log-likelihood as objective.           *)
(*                                                                         *)
(* numpy computes in IEEE-754 binary floating point.  The arithmetic below *)
(* is IEEE-754 arithmetic (round to nearest, ties to even, gradual         *)
(* underflow, overflow to infinity, NaN) in a format of reduced width:     *)
(* ManBits significant bits and exponents EMin..EMax instead of the 53     *)
(* bits and -1022..1023 of float64.  A finite number is held as an integer *)
(* count of the smallest subnormal (Unit of them make 1.0).  The sign of a *)
(* zero is not tracked: the code never divides by a zero whose sign could  *)
(* be negative (the only divisor is 2 * st^2).                             *)
(***************************************************************************)
EXTENDS Integers, Sequences, FiniteSets, TLC

VARIABLES kind, data, obj, arg, last, thr

vars == <<kind, data, obj, arg, last, thr>>

---------------------------------------------------------------------------
(* The floating-point format *)

ManBits == 3
EMin == -4
EMax == 4

Unit == 2 ^ (ManBits - 1 - EMin)
MaxFin == (2 ^ ManBits - 1) * 2 ^ (EMax - EMin)

(* A float is an integer: a finite number is its count of units, and the
   three special values lie outside the finite range *)
Fin(n) == n
PosInf == MaxFin + 1
NegInf == 0 - PosInf
NaN == MaxFin + 2
Zero == Fin(0)
One == Fin(Unit)

IsNaN(a) == a = NaN
IsFinite(a) == (0 - MaxFin) <= a /\ a <= MaxFin
IsInf(a) == a = PosInf \/ a = NegInf
Abs(n) == IF n < 0 THEN 0 - n ELSE n
Sgn(n) == IF n < 0 THEN -1 ELSE IF n > 0 THEN 1 ELSE 0
InfOf(s) == IF s < 0 THEN NegInf ELSE PosInf

(* distance between neighbouring numbers of the format at magnitude m *)
RECURSIVE Spacing(_)
Spacing(m) == IF m < 2 ^ ManBits THEN 1 ELSE 2 * Spacing(m \div 2)

(* a magnitude of a / den units, a multiple lo of the spacing s below it:
   the nearer neighbour, the even one on a tie *)
Nearest(a, den, s, lo) ==
  IF 2 * (a - lo * den) < s * den THEN lo
  ELSE IF 2 * (a - lo * den) > s * den THEN lo + s
  ELSE IF (lo \div s) % 2 = 0 THEN lo ELSE lo + s

RoundAt[a \in Nat, den \in Nat, s \in Nat] ==
  Nearest(a, den, s, (a \div (den * s)) * s)

(* a rounded magnitude k with sign sg: infinite beyond the largest number *)
Signed[sg \in Int, k \in Nat] == IF k > MaxFin THEN InfOf(sg) ELSE Fin(sg * k)

(* the rational num / den (den > 0, in units), rounded to the format *)
RoundQ[num \in Int, den \in Nat] ==
  Signed[Sgn(num), RoundAt[Abs(num), den, Spacing(Abs(num) \div den)]]

Neg[a \in Int] == IF IsNaN(a) THEN NaN ELSE 0 - a

Add[a \in Int, b \in Int] ==
  IF IsNaN(a) \/ IsNaN(b) THEN NaN
  ELSE IF IsInf(a) THEN (IF IsInf(b) /\ b # a THEN NaN ELSE a)
  ELSE IF IsInf(b) THEN b
  ELSE RoundQ[a + b, 1]

Mul[a \in Int, b \in Int] ==
  IF IsNaN(a) \/ IsNaN(b) THEN NaN
  ELSE IF IsInf(a) \/ IsInf(b)
       THEN (IF a = 0 \/ b = 0 THEN NaN ELSE InfOf(Sgn(a) * Sgn(b)))
  ELSE RoundQ[a * b, Unit]

Div[a \in Int, b \in Int] ==
  IF IsNaN(a) \/ IsNaN(b) THEN NaN
  ELSE IF IsInf(a) THEN (IF IsInf(b) THEN NaN
                         ELSE InfOf(Sgn(a) * (IF b < 0 THEN -1 ELSE 1)))
  ELSE IF IsInf(b) THEN Zero
  ELSE IF b = 0 THEN (IF a = 0 THEN NaN ELSE InfOf(a))
  ELSE RoundQ[Sgn(b) * a * Unit, Abs(b)]

(* the arithmetic of numpy on float operands: - + - * / *)
FNeg(a) == Neg[a]
FAdd(a, b) == Add[a, b]
FSub(a, b) == Add[a, Neg[b]]
FMul(a, b) == Mul[a, b]
FDiv(a, b) == Div[a, b]

(* np.power(a, 2.) *)
Square[a \in Int] == Mul[a, a]
FSquare(a) == Square[a]

(* exp(-n / Unit) for a representable n >= 0, correctly rounded, in units *)
ExpNegUnits(n) ==
  CASE n = 0 -> 64 [] n = 1 -> 64 [] n = 2 -> 64 [] n = 3 -> 64 [] n = 4 -> 64 [] n = 5 -> 56
       [] n = 6 -> 56 [] n = 7 -> 56 [] n = 8 -> 56 [] n = 10 -> 56 [] n = 12 -> 56 [] n = 14 -> 48
       [] n = 16 -> 48 [] n = 20 -> 48 [] n = 24 -> 40 [] n = 28 -> 40 [] n = 32 -> 40 [] n = 40 -> 32
       [] n = 48 -> 32 [] n = 56 -> 28 [] n = 64 -> 24 [] n = 80 -> 20 [] n = 96 -> 14 [] n = 112 -> 12
       [] n = 128 -> 8 [] n = 160 -> 5 [] n = 192 -> 3 [] n = 224 -> 2 [] n = 256 -> 1
       [] n >= 320 -> 0

(* exp(n / Unit) for a representable n > 0, correctly rounded, in units;
   above MaxFin from n = 224 on *)
ExpPosUnits(n) ==
  CASE n <= 7 -> 64 [] n = 8 -> 80 [] n = 10 -> 80 [] n = 12 -> 80 [] n = 14 -> 80 [] n = 16 -> 80
       [] n = 20 -> 80 [] n = 24 -> 96 [] n = 28 -> 96 [] n = 32 -> 112 [] n = 40 -> 112 [] n = 48 -> 128
       [] n = 56 -> 160 [] n = 64 -> 160 [] n = 80 -> 224 [] n = 96 -> 256 [] n = 112 -> 384
       [] n = 128 -> 448 [] n = 160 -> 768 [] n = 192 -> 1280
       [] n >= 224 -> MaxFin + 1

(* np.exp *)
Exp[a \in Int] ==
  IF IsNaN(a) THEN NaN
  ELSE IF IsInf(a) THEN (IF a < 0 THEN Zero ELSE PosInf)
  ELSE IF a <= 0 THEN Fin(ExpNegUnits(0 - a))
  ELSE IF ExpPosUnits(a) > MaxFin THEN PosInf
  ELSE Fin(ExpPosUnits(a))
FExp(a) == Exp[a]

(* log(n / Unit) for a representable n > 0, correctly rounded, in units *)
LogUnits(n) ==
  CASE n = 1 -> -256 [] n = 2 -> -224 [] n = 3 -> -192 [] n = 4 -> -192 [] n = 5 -> -160 [] n = 6 -> -160
       [] n = 7 -> -128 [] n = 8 -> -128 [] n = 10 -> -112 [] n = 12 -> -112 [] n = 14 -> -96 [] n = 16 -> -96
       [] n = 20 -> -80 [] n = 24 -> -64 [] n = 28 -> -56 [] n = 32 -> -48 [] n = 40 -> -32 [] n = 48 -> -20
       [] n = 56 -> -8 [] n = 64 -> 0 [] n = 80 -> 14 [] n = 96 -> 24 [] n = 112 -> 32 [] n = 128 -> 48
       [] n = 160 -> 56 [] n = 192 -> 64 [] n = 224 -> 80 [] n = 256 -> 96 [] n = 320 -> 96 [] n = 384 -> 112
       [] n = 448 -> 128 [] n = 512 -> 128 [] n = 640 -> 160 [] n = 768 -> 160 [] n = 896 -> 160 [] n = 1024 -> 192
       [] n = 1280 -> 192 [] n = 1536 -> 192 [] n = 1792 -> 224

(* np.log: -inf at 0, nan below 0 (numpy warns, it does not raise) *)
Log[a \in Int] ==
  IF IsNaN(a) THEN NaN
  ELSE IF a = PosInf THEN PosInf
  ELSE IF a < 0 THEN NaN
  ELSE IF a = 0 THEN NegInf
  ELSE Fin(LogUnits(a))
FLog(a) == Log[a]

(* the order of floats: nothing compares with NaN *)
FLess(a, b) == ~IsNaN(a) /\ ~IsNaN(b) /\ a < b
FLeq(a, b) == ~IsNaN(a) /\ ~IsNaN(b) /\ a <= b

---------------------------------------------------------------------------
(* The input data and the construction of a model instance.  An instance  *)
(* is its attribute dictionary: a function from attribute names to values. *)

Two == Fin(2 * Unit)
Half == Fin(Unit \div 2)
Tiny == Fin(Unit \div 32)

(* Model.__init__(data): the base class keeps the time window and the
   observed response of the data set *)
Model_init(d) == [t |-> d.t, spikes |-> d.spikes]

Time_param_names == <<"a_1", "ut", "st", "a_0">>

Time_init(d) == [param_names |-> Time_param_names] @@ Model_init(d)

(* np.tile(t, (n, 1)) *)
Tile(t, n) == [k \in 1..n |-> t]

CatSetTime_param_names == <<"ut", "st", "a_0", "a_1", "a_2">>

CatSetTime_init(d) ==
  LET self == Model_init(d)
  IN [plot_t |-> self.t,
      t |-> Tile(self.t, d.num_trials),
      conditions |-> d.conditions,
      param_names |-> CatSetTime_param_names] @@ self

Construct(k, d) == IF k = "Time" THEN Time_init(d) ELSE CatSetTime_init(d)

---------------------------------------------------------------------------
(* model and objective *)

Return(self, v) == [self |-> self, outcome |-> "return", value |-> v]
Raise(self, e) == [self |-> self, outcome |-> "raise", value |-> e]

(* np.exp(-np.power(t - ut, 2.) / (2 * np.power(st, 2.))) at one sample *)
Gauss(ti, ut, st) ==
  FExp(FDiv(FNeg(FSquare(FSub(ti, ut))), FMul(Two, FSquare(st))))

(* variant: the entries read in the order ut, st, a_0, a_1 *)
Time_unpack_reordered(x) ==
  [ut |-> x[1], st |-> x[2], a_0 |-> x[3], a_1 |-> x[4]]

(* a_1, ut, st, a_0 = x *)
Time_unpack(x) == [a_1 |-> x[1], ut |-> x[2], st |-> x[3], a_0 |-> x[4]]

(* variant: the offset a_0 left out of the prediction *)
Time_function_no_offset(t, x) ==
  [i \in 1..Len(t) |->
     FMul(Time_unpack(x).a_1, Gauss(t[i], Time_unpack(x).ut, Time_unpack(x).st))]

Time_function(t, x) ==
  LET p == Time_unpack(x)
  IN [i \in 1..Len(t) |-> FAdd(FMul(p.a_1, Gauss(t[i], p.ut, p.st)), p.a_0)]

(* self.function = <the prediction at x> *)
Time_store(self, x) == ("function" :> Time_function(self.t, x)) @@ self

(* variant: a prediction already stored is returned as it is *)
Time_model_stale(self, x) ==
  IF Len(x) # 4 THEN Raise(self, "ValueError")
  ELSE IF "function" \in DOMAIN self THEN Return(self, self.function)
  ELSE Return(("function" :> Time_function(self.t, x)) @@ self,
              Time_function(self.t, x))

(* Time.model: the unpacking raises ValueError unless x has four entries;
   the prediction is stored in self.function and that attribute returned *)
Time_model(self, x) ==
  IF Len(x) # 4 THEN Raise(self, "ValueError")
  ELSE Return(Time_store(self, x), Time_store(self, x).function)

(* variant: the logarithms not negated *)
LossTerm_unnegated(s, f) ==
  FAdd(FMul(s, FLog(f)), FMul(FSub(One, s), FLog(FSub(One, f))))

(* variant: a prediction outside (0, 1) replaced by 1/2 before the
   logarithms *)
LossTerm_clipped(s, f) ==
  LET c == IF FLeq(f, Zero) \/ FLeq(One, f) THEN Half ELSE f
  IN FAdd(FMul(s, FNeg(FLog(c))), FMul(FSub(One, s), FNeg(FLog(FSub(One, c)))))

(* one summand of the log-loss *)
Term[s \in Int, f \in Int] ==
  FAdd(FMul(s, FNeg(FLog(f))), FMul(FSub(One, s), FNeg(FLog(FSub(One, f)))))
LossTerm(s, f) == Term[s, f]

(* np.sum over n values v[1] .. v[n]: accumulated left to right *)
NpSum(v, n) ==
  LET acc[i \in 1..n] == IF i = 1 THEN v[1] ELSE FAdd(acc[i - 1], v[i])
  IN IF n = 0 THEN Zero ELSE acc[n]

(* the loss over a vector of observations *)
Loss1(spikes, fun) ==
  NpSum([i \in 1..Len(spikes) |-> LossTerm(spikes[i], fun[i])], Len(spikes))

(* the loss over a matrix of observations with rows of length L, which
   np.sum visits row after row *)
Loss2(spikes, fun, L) ==
  NpSum([j \in 1..(Len(spikes) * L) |->
         LossTerm(spikes[((j - 1) \div L) + 1][((j - 1) % L) + 1],
                  fun[((j - 1) \div L) + 1][((j - 1) % L) + 1])],
      Len(spikes) * L)

(* variant: the loss of the prediction stored by an earlier call *)
Time_objective_cached(self, x) ==
  IF Len(x) # 4 THEN Raise(self, "ValueError")
  ELSE IF "function" \in DOMAIN self
  THEN Return(self, Loss1(self.spikes, self.function))
  ELSE Return(("function" :> Time_function(self.t, x)) @@ self,
              Loss1(self.spikes, Time_function(self.t, x)))

(* Time.objective *)
Time_objective(self, x) ==
  LET m == Time_model(self, x)
  IN IF m.outcome = "raise" THEN m
     ELSE Return(m.self, Loss1(m.self.spikes, m.value))

(* ut, st, a_0 = x[0], x[1], x[2]; a_1, a_2 = x[3], x[4] *)
CatSetTime_unpack(x) ==
  [ut |-> x[1], st |-> x[2], a_0 |-> x[3], a_1 |-> x[4], a_2 |-> x[5]]

(* variant: a_1 multiplied into both terms *)
CatSetTime_function_one_amplitude(t, c1, c2, x) ==
  [k \in 1..Len(t) |->
     [i \in 1..Len(t[k]) |->
        FAdd(FAdd(FMul(FMul(x[4], c1[k]), Gauss(t[k][i], x[1], x[2])),
                  FMul(FMul(x[4], c2[k]), Gauss(t[k][i], x[1], x[2]))),
             x[3])]]

(* c1 and c2 hold one indicator per trial; the indicator of trial k
   multiplies the k-th row of the tiled window *)
CatSetTime_function(t, c1, c2, x) ==
  LET p == CatSetTime_unpack(x)
  IN [k \in 1..Len(t) |->
       [i \in 1..Len(t[k]) |->
          LET g == Gauss(t[k][i], p.ut, p.st)
          IN FAdd(FAdd(FMul(FMul(p.a_1, c1[k]), g),
                       FMul(FMul(p.a_2, c2[k]), g)),
                  p.a_0)]]

(* variant: the prediction also stored in self.function *)
CatSetTime_model_caching(self, x) ==
  IF Len(x) < 5 THEN Raise(self, "IndexError")
  ELSE Return(("function" :> CatSetTime_function(self.t, self.conditions[1],
                                                 self.conditions[2], x)) @@ self,
              CatSetTime_function(self.t, self.conditions[1],
                                  self.conditions[2], x))

(* CatSetTime.model: indexing x[0] .. x[4] raises IndexError when x has
   fewer than five entries and reads nothing beyond the fifth *)
CatSetTime_model(self, x) ==
  IF Len(x) < 5 THEN Raise(self, "IndexError")
  ELSE Return(self, CatSetTime_function(self.t, self.conditions[1],
                                        self.conditions[2], x))

(* CatSetTime.objective *)
CatSetTime_objective(self, x) ==
  LET m == CatSetTime_model(self, x)
  IN IF m.outcome = "raise" THEN m
     ELSE Return(m.self, Loss2(m.self.spikes, m.value, Len(m.self.plot_t)))

Call(k, op, self, x) ==
  IF k = "Time"
  THEN (IF op = "model" THEN Time_model(self, x) ELSE Time_objective(self, x))
  ELSE (IF op = "model" THEN CatSetTime_model(self, x)
        ELSE CatSetTime_objective(self, x))

---------------------------------------------------------------------------
(* Bounds and input sets *)

MaxLen == 2
MaxTrials == 1

Kinds == {"Time", "CatSetTime"}
Insts == {1, 2}
Threads == {1, 2}
Bin == {Zero, One}

(* time windows: evenly spaced sample points 0, 1, .. *)
Windows(L) == {[i \in 1..L |-> Fin((i - 1) * Unit)]}

(* spike trains over L sample points: every train of 0s and 1s, or the
   one train that alternates 1, 0, 1, .. *)
Trains(L, every) ==
  IF every THEN [1..L -> Bin]
  ELSE {[i \in 1..L |-> IF i % 2 = 1 THEN One ELSE Zero]}

TimeData(every) ==
  UNION {[t : Windows(L), spikes : Trains(L, every),
          num_trials : {1}, conditions : {<<>>}] : L \in 1..MaxLen}

CatData(every) ==
  UNION {UNION {[t : Windows(L), spikes : [1..n -> Trains(L, every)],
                 num_trials : {n}, conditions : [1..2 -> [1..n -> Bin]]]
                : L \in 1..MaxLen} : n \in 1..MaxTrials}

DataOf(k, every) == IF k = "Time" THEN TimeData(every) ELSE CatData(every)

Arity(k) == Len(Construct(k, [t |-> <<>>, spikes |-> <<>>, num_trials |-> 0,
                              conditions |-> <<>>]).param_names)

(* candidate vectors of the solver with all entries equal: two of the
   length of param_names, one an entry short and one an entry long *)
Vectors(k) ==
  {[i \in 1..Arity(k) |-> v] : v \in {Half, One}}
    \cup {[i \in 1..n |-> Half] : n \in {Arity(k) - 1, Arity(k) + 1}}

(* candidate vectors of the right length, entry by entry *)
TimeVectors ==
  {<<a_1, ut, st, a_0>> : a_1 \in {Zero, Half, One}, ut \in {Zero, One},
                          st \in {Zero, Tiny, One},
                          a_0 \in {Zero, Tiny, Half, One}}

CatVectors ==
  {<<ut, st, a_0, a_1, a_2>> : ut \in {Zero, One}, st \in {Tiny, One},
                               a_0 \in {Zero, Half},
                               a_1 \in {Half, One}, a_2 \in {Half, One}}

NumVectors(k) == IF k = "Time" THEN TimeVectors ELSE CatVectors

NoCall == [inst |-> 0, op |-> "none", x |-> <<>>, outcome |-> "none", value |-> <<>>]
Idle == [pc |-> "idle", op |-> "none", x |-> <<>>, fun |-> <<>>, ret |-> <<>>]

---------------------------------------------------------------------------
(* Sequential calls on two instances built from the same data *)

Init ==
  /\ kind \in Kinds
  /\ data \in DataOf(kind, FALSE)
  /\ obj = [i \in Insts |-> Construct(kind, data)]
  /\ arg = <<>>
  /\ last = NoCall
  /\ thr = [h \in Threads |-> Idle]

Do(i, op, x) ==
  \E r \in {Call(kind, op, obj[i], x)} :
     /\ obj' = [obj EXCEPT ![i] = r.self]
     /\ last' = [inst |-> i, op |-> op, x |-> x,
                 outcome |-> r.outcome, value |-> r.value]
     /\ UNCHANGED <<kind, data, thr>>

Model(i, x) == Do(i, "model", x) /\ UNCHANGED arg

Objective(i, x) == Do(i, "objective", x) /\ UNCHANGED arg

Next == \E i \in Insts, x \in Vectors(kind) : Model(i, x) \/ Objective(i, x)

Spec == Init /\ [][Next]_vars

---------------------------------------------------------------------------
(* One evaluation of model or objective at a candidate vector drawn with  *)
(* the data: the functions as functions of the data and the vector.       *)

InitNum ==
  /\ kind \in Kinds
  /\ data \in DataOf(kind, TRUE)
  /\ obj = [i \in Insts |-> Construct(kind, data)]
  /\ arg \in NumVectors(kind)
  /\ last = NoCall
  /\ thr = [h \in Threads |-> Idle]

EvalModel == arg # <<>> /\ Do(1, "model", arg) /\ arg' = <<>>

EvalObjective == arg # <<>> /\ Do(1, "objective", arg) /\ arg' = <<>>

NextNum == EvalModel \/ EvalObjective

SpecNum == InitNum /\ [][NextNum]_vars

---------------------------------------------------------------------------
(* Two threads calling model and objective of one shared Time instance.   *)
(* A call is the statements of the method, one after the other; another   *)
(* thread may run between any two of them.                                *)

InitConc ==
  /\ kind = "Time"
  /\ data \in TimeData(TRUE)
  /\ obj = [i \in Insts |-> Construct(kind, data)]
  /\ arg = <<>>
  /\ last = NoCall
  /\ thr = [h \in Threads |-> Idle]

(* the call starts: a_1, ut, st, a_0 = x *)
Enter(h, op, x) ==
  /\ thr[h].pc = "idle"
  /\ thr' = [thr EXCEPT ![h] =
       IF Len(x) # 4
       THEN [pc |-> "done", op |-> op, x |-> x, fun |-> <<>>, ret |-> "ValueError"]
       ELSE [pc |-> "store", op |-> op, x |-> x, fun |-> <<>>, ret |-> <<>>]]
  /\ UNCHANGED <<kind, data, obj, arg, last>>

(* self.function = ... *)
Store(h) ==
  /\ thr[h].pc = "store"
  /\ obj' = [obj EXCEPT ![1] = Time_store(obj[1], thr[h].x)]
  /\ thr' = [thr EXCEPT ![h].pc = "load"]
  /\ UNCHANGED <<kind, data, arg, last>>

(* return self.function; in objective: fun = self.model(x) *)
Load(h) ==
  /\ thr[h].pc = "load"
  /\ thr' = [thr EXCEPT ![h] =
       IF thr[h].op = "model"
       THEN [@ EXCEPT !.pc = "done", !.ret = obj[1].function]
       ELSE [@ EXCEPT !.pc = "sum", !.fun = obj[1].function]]
  /\ UNCHANGED <<kind, data, obj, arg, last>>

(* obj = np.sum(...); return obj *)
Sum(h) ==
  /\ thr[h].pc = "sum"
  /\ thr' = [thr EXCEPT ![h].pc = "done",
                        ![h].ret = Loss1(obj[1].spikes, thr[h].fun)]
  /\ UNCHANGED <<kind, data, obj, arg, last>>

NextConc ==
  \E h \in Threads :
     \/ \E x \in Vectors("Time") : Enter(h, "model", x) \/ Enter(h, "objective", x)
     \/ Store(h)
     \/ Load(h)
     \/ Sum(h)

SpecConc == InitConc /\ [][NextConc]_vars

---------------------------------------------------------------------------
(* Properties.  Spec: sequential calls on two instances built from the    *)
(* same data.  SpecNum: one evaluation at a vector of the right length.   *)
(* SpecConc: two threads on one shared Time instance.                     *)

Called == last.op # "none"

Returned == Called /\ last.outcome = "return"

(* the prediction the last call was made at, computed from the data *)
Prediction ==
  IF kind = "Time" THEN Time_function(obj[1].t, last.x)
  ELSE CatSetTime_function(obj[1].t, obj[1].conditions[1],
                           obj[1].conditions[2], last.x)

(* the elements of a prediction *)
Elements(f) ==
  IF kind = "Time" THEN {f[i] : i \in 1..Len(f)}
  ELSE UNION {{f[k][i] : i \in 1..Len(f[k])} : k \in 1..Len(f)}

InsideUnit(p) == FLess(Zero, p) /\ FLess(p, One)

OutsideUnit(p) == FLeq(p, Zero) \/ FLeq(One, p)

(* C1: a call of model or objective with a vector whose length differs
   from len(param_names), shorter or longer, ends in an error and never
   returns a value.  (Spec) *)
C1_LengthMismatchSignalled ==
  (Called /\ Len(last.x) # Len(obj[last.inst].param_names))
     => last.outcome = "raise"

(* C2: under every interleaving of two calls on the shared Time instance,
   a finished call has returned what the same call returns when it runs
   alone on the instance as constructed.  (SpecConc) *)
C2_ConcurrentCallsIsolated ==
  \A h \in Threads :
     thr[h].pc = "done"
        => thr[h].ret = Call(kind, thr[h].op, Construct(kind, data), thr[h].x).value

(* C3: the value a sequential call of model(x) or objective(x) returns is
   the value the same call returns on the instance as constructed, and the
   value the next call with the same x returns, whatever calls were made on
   the instance before.  (Spec) *)
C3_RepeatedCallsAgree ==
  Returned =>
     /\ last.value = Call(kind, last.op, Construct(kind, data), last.x).value
     /\ last.value = Call(kind, last.op, obj[last.inst], last.x).value

(* a call has returned on one instance while the other instance holds the
   prediction of a call at another vector *)
C3_Witness ==
  /\ Returned
  /\ kind = "Time"
  /\ last.op = "objective"
  /\ \E j \in Insts \ {last.inst} :
        /\ "function" \in DOMAIN obj[j]
        /\ obj[j].function # obj[last.inst].function

(* a vector whose entries name their positions *)
Probe == <<1, 2, 3, 4, 5, 6>>

Unpack(k, x) == IF k = "Time" THEN Time_unpack(x) ELSE CatSetTime_unpack(x)

(* C4: in every reachable state param_names has as many entries as model
   reads from x, 4 for Time and 5 for CatSetTime, and the name at position
   i is the quantity model reads from position i: a_1, ut, st, a_0 for
   Time and ut, st, a_0, a_1, a_2 for CatSetTime.  (Spec) *)
C4_ParamNamesMatchUnpack ==
  \A i \in Insts :
     LET names == obj[i].param_names
         read == Unpack(kind, Probe)
     IN /\ names = IF kind = "Time" THEN <<"a_1", "ut", "st", "a_0">>
                   ELSE <<"ut", "st", "a_0", "a_1", "a_2">>
        /\ Len(names) = Cardinality(DOMAIN read)
        /\ \A p \in 1..Len(names) :
              names[p] \in DOMAIN read /\ read[names[p]] = Probe[p]

(* both kinds of call have been made and the names are still in place *)
C4_Witness ==
  /\ Returned
  /\ last.op = "objective"
  /\ kind = "CatSetTime"
  /\ Len(obj[last.inst].param_names) = 5

(* the observations are 0 or 1 and every prediction lies strictly inside
   (0, 1), and Time.objective has returned *)
C5_Case ==
  /\ Returned
  /\ kind = "Time"
  /\ last.op = "objective"
  /\ \A i \in 1..Len(obj[1].spikes) : obj[1].spikes[i] \in Bin
  /\ \A p \in Elements(obj[1].function) : InsideUnit(p)

(* C5 as stated: in that case the cost is finite, non-negative and never
   0.  (SpecNum) *)
C5_StrictlyPositive ==
  C5_Case => IsFinite(last.value) /\ FLeq(Zero, last.value) /\ last.value # Zero

(* C5: in that case the cost is finite and non-negative; it is 0 exactly
   when every observation is 0 and every 1 - model(x)_i evaluates to 1,
   and strictly positive otherwise.  (SpecNum) *)
C5_NonNegativeFinite ==
  C5_Case =>
     /\ IsFinite(last.value)
     /\ FLeq(Zero, last.value)
     /\ last.value = Zero
           <=> \A i \in 1..Len(obj[1].spikes) :
                  /\ obj[1].spikes[i] = Zero
                  /\ FSub(One, obj[1].function[i]) = One

(* a strictly positive cost over two observations *)
C5_Witness ==
  /\ C5_Case
  /\ Len(obj[1].spikes) = 2
  /\ FLess(Zero, last.value)

(* a cost of 0 with every prediction strictly inside (0, 1) *)
C5_ZeroCost == C5_Case /\ last.value = Zero

(* C6: objective at a vector of the right length signals no error, and
   when some prediction is <= 0 or >= 1 the cost it returns is not finite.
   (SpecNum) *)
C6_DivergenceReturned ==
  (Called /\ last.op = "objective") =>
     /\ last.outcome = "return"
     /\ (\E p \in Elements(Prediction) : OutsideUnit(p))
           => ~IsFinite(last.value)

(* CatSetTime.objective has returned a non-finite cost where a prediction
   is >= 1 *)
C6_Witness ==
  /\ Returned
  /\ last.op = "objective"
  /\ kind = "CatSetTime"
  /\ \E p \in Elements(Prediction) : FLeq(One, p)
  /\ ~IsFinite(last.value)

(* the prediction with the two indicators exchanged *)
Swapped ==
  CatSetTime_function(obj[1].t, obj[1].conditions[2],
                      obj[1].conditions[1], last.x)

(* CatSetTime.model has returned for indicators that differ on a trial *)
C7_Case ==
  /\ Returned
  /\ kind = "CatSetTime"
  /\ last.op = "model"
  /\ obj[1].conditions[1] # obj[1].conditions[2]

(* C7 as stated: exchanging indicators that differ on a trial changes the
   prediction.  (SpecNum) *)
C7_SwapAlwaysChanges == C7_Case => Swapped # last.value

(* some trial on which the indicators differ has a sample at the centre *)
CentreOnDifferingTrial ==
  \E k \in 1..Len(obj[1].t) :
     /\ obj[1].conditions[1][k] # obj[1].conditions[2][k]
     /\ \E i \in 1..Len(obj[1].t[k]) :
           obj[1].t[k][i] = CatSetTime_unpack(last.x).ut

(* C7: exchanging the indicators changes the prediction only if a_1 and
   a_2 differ; it does change it when a_1 and a_2 differ, a_0 is 0, a
   trial on which the indicators differ has a sample at the centre ut, and
   2 * st^2 does not evaluate to 0.  (SpecNum) *)
C7_SwapChangesIfAmplitudesDiffer ==
  C7_Case =>
     LET p == CatSetTime_unpack(last.x)
     IN /\ Swapped # last.value => p.a_1 # p.a_2
        /\ (/\ p.a_1 # p.a_2
            /\ p.a_0 = Zero
            /\ CentreOnDifferingTrial
            /\ FMul(Two, FSquare(p.st)) # Zero)
              => Swapped # last.value

(* the exchange has changed a prediction *)
C7_Witness ==
  /\ C7_Case
  /\ CatSetTime_unpack(last.x).a_1 # CatSetTime_unpack(last.x).a_2
  /\ Swapped # last.value

(* the exchange has left a prediction as it was *)
C7_Commuted == C7_Case /\ Swapped = last.value

(* the sample points at the centre hold a_1 + a_0 *)
PeakAtCentre ==
  LET p == Time_unpack(last.x)
  IN \A i \in 1..Len(obj[1].t) :
        obj[1].t[i] = p.ut => last.value[i] = FAdd(p.a_1, p.a_0)

C8_Case == Returned /\ kind = "Time" /\ last.op = "model"

(* C8 as stated: with st non-zero, model(x)_i is a_1 + a_0 at every sample
   point equal to ut.  (SpecNum) *)
C8_PeakForNonZeroWidth ==
  (C8_Case /\ Time_unpack(last.x).st # Zero) => PeakAtCentre

(* C8: when 2 * st^2 does not evaluate to 0, model(x)_i is a_1 + a_0 at
   every sample point equal to ut; with a_1 = 1, ut = 0, st = 1, a_0 = 0
   and time window [0] model evaluates to 1.0.  (SpecNum) *)
C8_PeakAtCentre ==
  C8_Case =>
     /\ FMul(Two, FSquare(Time_unpack(last.x).st)) # Zero => PeakAtCentre
     /\ (last.x = <<One, Zero, One, Zero>> /\ obj[1].t = <<Zero>>)
           => last.value = <<One>>

(* the stated instance: model has returned [1.0] *)
C8_Witness ==
  /\ C8_Case
  /\ last.x = <<One, Zero, One, Zero>>
  /\ obj[1].t = <<Zero>>
  /\ last.value = <<One>>

(* a non-zero width whose square underflows *)
C8_Underflow ==
  /\ C8_Case
  /\ Time_unpack(last.x).st # Zero
  /\ FMul(Two, FSquare(Time_unpack(last.x).st)) = Zero

(* C9: two instances built from the same data answer the call just made,
   model or objective at the same x, with the same outcome and the same
   value, whatever calls each of them has received.  (Spec) *)
C9_InstancesAgree ==
  Called =>
     LET a == Call(kind, last.op, obj[1], last.x)
         b == Call(kind, last.op, obj[2], last.x)
     IN a.outcome = b.outcome /\ a.value = b.value

(* the two instances have been called at different vectors *)
C9_Witness ==
  /\ Returned
  /\ kind = "Time"
  /\ \A i \in Insts : "function" \in DOMAIN obj[i]
  /\ obj[1].function # obj[2].function

(* the attributes set at construction *)
Held(self) == [a \in DOMAIN Construct(kind, data) |-> self[a]]

(* C10: in every state reached by calls of model and objective the
   attributes set at construction (t, spikes, param_names, and for
   CatSetTime plot_t and conditions) hold their values of construction; the
   only other attribute is function of Time, which after a call of
   Time.model(x) or Time.objective(x) that returned holds the prediction
   for x; a CatSetTime instance has no other attribute.  (Spec) *)
C10_OnlyFunctionWritten ==
  \A i \in Insts :
     /\ DOMAIN Construct(kind, data) \subseteq DOMAIN obj[i]
     /\ Held(obj[i]) = Construct(kind, data)
     /\ DOMAIN obj[i] \subseteq DOMAIN Construct(kind, data)
           \cup (IF kind = "Time" THEN {"function"} ELSE {})
     /\ (Returned /\ kind = "Time" /\ last.inst = i)
           => /\ "function" \in DOMAIN obj[i]
              /\ obj[i].function = Time_function(Construct(kind, data).t, last.x)

(* Time.objective has returned and left the prediction in function *)
C10_Witness ==
  /\ Returned
  /\ kind = "Time"
  /\ last.op = "objective"
  /\ "function" \in DOMAIN obj[last.inst]
  /\ "function" \notin DOMAIN Construct(kind, data)

===========================================================================
